---- MODULE Spec2Model ----
(***************************************************************************)
(* A model of the PrismX user API: the user collection behind Prisma, the  *)
(* rbac helpers, the authenticate middleware, the user and auth services   *)
(* and the routes that mount them.                                         *)
(*                                                                         *)
(* Conventions.  A JavaScript string that the code only compares is a TLA+ *)
(* string; a string the code searches inside (names, email) is a sequence  *)
(* of one-character strings.  An optional value (a payload field that may  *)
(* be undefined, a nullable column, a query result that may be null) is a  *)
(* sequence of length 0 or 1; an undefined role argument is "undefined".   *)
(* A record id is its position in the collection (the ObjectId the store   *)
(* assigns at creation).                                                   *)
(***************************************************************************)
EXTENDS Integers, Sequences, FiniteSets, TLC

VARIABLES users, last, now, registered, deleted, inflight

vars == <<users, last, now, registered, deleted, inflight>>

(***************************************************************************)
(* Bounds of the model                                                     *)
(***************************************************************************)
MaxUsers == 2
MaxNow == 8
MaxList == 2
MaxListed == 4
MaxPage == 3
MaxPaths == 2
MaxClock == 1

Undefined == "undefined"

Roles == {"admin", "driver", "passenger"}
Statuses == {"active", "inactive", "banned"}
Permissions == {"read:users", "write:users", "delete:users", "admin:all"}

Emails == {<<"a", "@", "x">>, <<"B", "@", "x">>}
Passwords == {"p1", "p2"}
Ids == 1..(MaxUsers + 1)

(***************************************************************************)
(* Array.prototype helpers                                                 *)
(***************************************************************************)
includes(arr, x) == \E i \in 1..Len(arr) : arr[i] = x

(***************************************************************************)
(* middleware/rbac                                                         *)
(***************************************************************************)
\* a table in which no role holds more than read:users
ReadOnlyPermissions ==
  [admin |-> <<"read:users">>, driver |-> <<"read:users">>, passenger |-> <<"read:users">>]

ROLE_PERMISSIONS ==
  [admin |-> <<"read:users", "write:users", "delete:users", "admin:all">>,
   driver |-> <<"read:users">>,
   passenger |-> <<"read:users">>]

\* ROLE_PERMISSIONS[userRole] || []
permissionsOf(userRole) ==
  IF userRole \in DOMAIN ROLE_PERMISSIONS THEN ROLE_PERMISSIONS[userRole] ELSE <<>>

hasPermission(userRole, permission) ==
  LET permissions == permissionsOf(userRole)
  IN includes(permissions, permission) \/ includes(permissions, "admin:all")

hasAnyPermission(userRole, permissions) ==
  \E i \in 1..Len(permissions) : hasPermission(userRole, permissions[i])

hasAllPermissions(userRole, permissions) ==
  \A i \in 1..Len(permissions) : hasPermission(userRole, permissions[i])

isRoleAllowed(userRole, allowedRoles) == includes(allowedRoles, userRole)

\* The outcome of a guard: it returns ("ok") or throws an Error with a message.
Returned == "ok"

checkPermission(userRole, permission) ==
  IF ~hasPermission(userRole, permission) THEN "Insufficient permissions" ELSE Returned

checkRole(userRole, allowedRoles) ==
  IF ~isRoleAllowed(userRole, allowedRoles) THEN "Insufficient permissions" ELSE Returned

requireAdminPermission(userRole) ==
  IF userRole = Undefined THEN "Authentication required"
  ELSE checkRole(userRole, <<"admin">>)

requireWritePermission(userRole) ==
  IF userRole = Undefined THEN "Authentication required"
  ELSE checkPermission(userRole, "write:users")

requireDeletePermission(userRole) ==
  IF userRole = Undefined THEN "Authentication required"
  ELSE checkPermission(userRole, "delete:users")

(***************************************************************************)
(* bcryptjs and jsonwebtoken, as the services use them                     *)
(***************************************************************************)
Salts == {"s1"}

\* A stored password value: a bcrypt hash, or a string stored as it came.
bcryptHash(s, salt) == [alg |-> "bcrypt", salt |-> salt, text |-> s]

rawString(s) == [alg |-> "raw", salt |-> "", text |-> s]

\* bcrypt.compare(s, hash): re-hash s with the salt of hash and compare.
bcryptCompare(s, hash) == hash.alg = "bcrypt" /\ bcryptHash(s, hash.salt) = hash

JWT_SECRET == "secret"

\* expiresIn: "7d"; the clock counts days.
ExpiresIn == 7

jwtSign(userId, secret, t) ==
  [userId |-> userId, iat |-> t, exp |-> t + ExpiresIn, sig |-> secret]

\* a verification that looks at the signature and not at the expiry
jwtVerifiesSignature(token, secret, t) ==
  /\ token.wellFormed
  /\ token.jwt.sig = secret

\* jwt.verify returns the payload, or throws on a bad signature, a malformed
\* token or an expired one (now >= exp).
jwtVerifies(token, secret, t) ==
  /\ token.wellFormed
  /\ token.jwt.sig = secret
  /\ t < token.jwt.exp

(***************************************************************************)
(* The `fields` parameter: a string seen as a sequence of lexical items,   *)
(* each a word, "," , "." or " ".                                          *)
(***************************************************************************)
RECURSIVE split(_, _)
split(s, sep) ==
  IF \E i \in 1..Len(s) : s[i] = sep
  THEN LET i == CHOOSE k \in 1..Len(s) : s[k] = sep /\ \A j \in 1..(k - 1) : s[j] # sep
       IN <<SubSeq(s, 1, i - 1)>> \o split(SubSeq(s, i + 1, Len(s)), sep)
  ELSE <<s>>

RECURSIVE trimStart(_)
trimStart(s) == IF s # <<>> /\ Head(s) = " " THEN trimStart(Tail(s)) ELSE s

RECURSIVE trimEnd(_)
trimEnd(s) ==
  IF s # <<>> /\ s[Len(s)] = " " THEN trimEnd(SubSeq(s, 1, Len(s) - 1)) ELSE s

trim(s) == trimEnd(trimStart(s))

(***************************************************************************)
(* The selection tree, flat: one entry per key path, a leaf (true) or a    *)
(* node ({ select: {...} }).                                               *)
(***************************************************************************)
isPrefix(p, q) == Len(p) <= Len(q) /\ SubSeq(q, 1, Len(p)) = p

hasEntry(sel, path) == \E e \in sel : e.path = path

isLeafAt(sel, path) == \E e \in sel : e.path = path /\ e.leaf

\* obj[key] = { select: {} }: a fresh node, whatever was under the key
freshNode(sel, path) ==
  {e \in sel : ~isPrefix(path, e.path)} \cup {[path |-> path, leaf |-> FALSE]}

\* obj[key] = obj[key] || { select: {} }
ensureNode(sel, path) ==
  IF hasEntry(sel, path) THEN sel ELSE sel \cup {[path |-> path, leaf |-> FALSE]}

\* obj[key] = true: whatever was under the key is replaced
setLeaf(sel, path) ==
  {e \in sel : ~isPrefix(path, e.path)} \cup {[path |-> path, leaf |-> TRUE]}

TypeError == [err |-> TRUE, sel |-> {}]

\* the loop over children and the final assignment; `defined` tells whether
\* `current` is an object (the .select of a node) or undefined (the .select
\* of `true`)
RECURSIVE descend(_, _, _, _, _)
descend(sel, current, defined, parts, i) ==
  IF ~defined THEN TypeError
  ELSE IF i = Len(parts) THEN [err |-> FALSE, sel |-> setLeaf(sel, Append(current, parts[i]))]
  ELSE LET path == Append(current, parts[i])
           sel1 == ensureNode(sel, path)
       IN descend(sel1, path, ~isLeafAt(sel1, path), parts, i + 1)

\* the reducer of fields.split(",").reduce(..., { id: true })
selectField(acc, field) ==
  LET parts == split(trim(field), ".")
  IN IF acc.err THEN acc
     ELSE IF Len(parts) > 1
     THEN LET parent == <<parts[1]>>
              sel1 == ensureNode(acc.sel, parent)
          IN descend(sel1, parent, ~isLeafAt(sel1, parent), parts, 2)
     ELSE [err |-> FALSE, sel |-> setLeaf(acc.sel, <<parts[1]>>)]

RECURSIVE reduceFields(_, _, _)
reduceFields(tokens, i, acc) ==
  IF i > Len(tokens) THEN acc
  ELSE reduceFields(tokens, i + 1, selectField(acc, tokens[i]))

idOnly == [err |-> FALSE, sel |-> {[path |-> <<<<"id">>>>, leaf |-> TRUE]}]

\* fields ? fields.split(",").reduce(...) : { id: true }
fieldSelections(fields) ==
  IF fields = <<>> THEN idOnly ELSE reduceFields(split(fields, ","), 1, idOnly)

(***************************************************************************)
(* The User model and the Prisma client calls the services make            *)
(***************************************************************************)
Null == <<>>

ScalarFields ==
  {"id", "email", "firstName", "lastName", "middleName", "password", "role",
   "status", "avatar", "isDeleted", "createdAt", "updatedAt"}

StringFields == {"email", "firstName", "lastName", "middleName", "avatar"}

MetadataFields == {"address", "phone", "age", "gender"}

ModelFields == ScalarFields \cup {"metadata"}

\* a key of a selection or of a where clause that is one word names a field
isWord(part) == Len(part) = 1

topKeys(sel) == {e.path[1] : e \in {x \in sel : Len(x.path) = 1}}

\* Prisma validates `select` against the model before it runs the query
selectIsValid(sel) ==
  \A e \in sel :
    /\ isWord(e.path[1]) /\ e.path[1][1] \in ModelFields
    /\ Len(e.path) = 1 => (e.leaf \/ e.path[1][1] = "metadata")
    /\ Len(e.path) = 2 =>
         /\ e.path[1][1] = "metadata"
         /\ e.leaf
         /\ isWord(e.path[2]) /\ e.path[2][1] \in MetadataFields
    /\ Len(e.path) <= 2

\* the record a query returns under a valid selection
project(u, sel) ==
  LET names == {k[1] : k \in topKeys(sel)}
      sub == {e.path[2][1] : e \in {x \in sel : Len(x.path) = 2}}
  IN [f \in names |->
        IF f = "metadata" /\ ~isLeafAt(sel, <<<<"metadata">>>>) /\ u.metadata # Null
        THEN <<[g \in sub |-> u.metadata[1][g]]>>
        ELSE u[f]]

\* select: { ... } given literally in the code
selectOf(names) == {[path |-> <<<<f>>>>, leaf |-> TRUE] : f \in names}

\* findUnique by email with the soft-deleted records left out
findByEmailAmongLive(us, email) ==
  IF \E i \in 1..Len(us) : us[i].email = email /\ ~us[i].isDeleted
  THEN <<us[CHOOSE i \in 1..Len(us) : us[i].email = email /\ ~us[i].isDeleted]>>
  ELSE Null

\* findUnique({ where: { email } }): the email field is unique
findByEmail(us, email) ==
  IF \E i \in 1..Len(us) : us[i].email = email
  THEN <<us[CHOOSE i \in 1..Len(us) : us[i].email = email]>>
  ELSE Null

\* the unique index of email: no record but `self` holds the email
emailIsFreeUnindexed(us, email, self) == TRUE

emailIsFree(us, email, self) == \A j \in 1..Len(us) : j # self => us[j].email # email

\* findUnique by id with the soft-deleted records included
findById(us, id) == IF id \in 1..Len(us) THEN <<us[id]>> ELSE Null

\* findUnique by id with the inactive and banned records included
findLiveByIdAnyStatus(us, id) ==
  IF id \in 1..Len(us) /\ us[id].isDeleted = FALSE THEN <<us[id]>> ELSE Null

\* findUnique({ where: { id, isDeleted: false } })
findLiveById(us, id) ==
  IF id \in 1..Len(us) /\ us[id].isDeleted = FALSE THEN <<us[id]>> ELSE Null

\* findUnique({ where: { id, isDeleted: false, status: "active" } })
findLiveActiveById(us, id) ==
  IF id \in 1..Len(us) /\ us[id].isDeleted = FALSE /\ us[id].status = "active"
  THEN <<us[id]>> ELSE Null

\* the schema's defaults for what the create data leaves undefined
withDefault(v, d) == IF v = Null THEN d ELSE v[1]

\* prisma.user.create({ data }): fails on the unique index of email
prismaCreate(us, data, t) ==
  IF ~emailIsFree(us, data.email, 0)
  THEN [err |-> TRUE, users |-> us, user |-> Null]
  ELSE LET u == [id |-> Len(us) + 1,
                 email |-> data.email,
                 firstName |-> data.firstName,
                 lastName |-> data.lastName,
                 middleName |-> data.middleName,
                 password |-> data.password,
                 role |-> withDefault(data.role, "passenger"),
                 status |-> withDefault(data.status, "active"),
                 avatar |-> Null,
                 metadata |-> Null,
                 isDeleted |-> FALSE,
                 createdAt |-> t,
                 updatedAt |-> t]
       IN [err |-> FALSE, users |-> Append(us, u), user |-> <<u>>]

\* the keys of an object that carry a value; an undefined one counts as absent
givenKeys(data) == {f \in DOMAIN data : data[f] # Null}

\* Prisma validates `data` against the update input of the model before it
\* runs the query; the input has every field of the model but the id, which
\* the store generates
updateIsValid(data) == givenKeys(data) \subseteq ModelFields \ {"id"}

\* an update that writes the record anew, role and status falling back to
\* their defaults when the data does not give them
prismaReplace(us, id, data) ==
  IF id \notin 1..Len(us) \/ ~updateIsValid(data)
  THEN [err |-> TRUE, users |-> us, user |-> Null]
  ELSE LET u == [f \in DOMAIN us[id] |->
                   IF f \in givenKeys(data) THEN data[f][1]
                   ELSE IF f = "role" THEN "passenger"
                   ELSE IF f = "status" THEN "active"
                   ELSE us[id][f]]
       IN [err |-> FALSE, users |-> [us EXCEPT ![id] = u], user |-> <<u>>]

\* prisma.user.update({ where: { id }, data }): data gives <<v>> for a value
\* to write and <<>> for an undefined one, which leaves the field alone; fails
\* when no record has the id, when the data does not fit the model or on the
\* unique index of email
prismaUpdate(us, id, data) ==
  IF id \notin 1..Len(us) \/ ~updateIsValid(data)
  THEN [err |-> TRUE, users |-> us, user |-> Null]
  ELSE IF /\ "email" \in DOMAIN data
          /\ data.email # Null
          /\ ~emailIsFree(us, data.email[1], id)
  THEN [err |-> TRUE, users |-> us, user |-> Null]
  ELSE LET u == [f \in DOMAIN us[id] |->
                   IF f \in DOMAIN data /\ data[f] # Null THEN data[f][1] ELSE us[id][f]]
       IN [err |-> FALSE, users |-> [us EXCEPT ![id] = u], user |-> <<u>>]

(***************************************************************************)
(* The where clause of getAllUsers                                         *)
(***************************************************************************)
lower(c) ==
  CASE c = "A" -> "a"
    [] c = "B" -> "b"
    [] c = "X" -> "x"
    [] OTHER -> c

toLower(str) == [i \in 1..Len(str) |-> lower(str[i])]

\* { contains: needle, mode: "insensitive" } on a nullable text column
containsInsensitive(column, needle) ==
  /\ column # Null
  /\ LET hay == toLower(column[1])
         n == toLower(needle)
     IN \E i \in 0..(Len(hay) - Len(n)) : SubSeq(hay, i + 1, i + Len(n)) = n

\* { ...a, ...b }: the keys of b replace those of a
spread(a, b) ==
  [k \in DOMAIN a \cup DOMAIN b |-> IF k \in DOMAIN b THEN b[k] ELSE a[k]]

NoKeys == [k \in {} |-> Null]

\* whereClause: every value is tagged with its JavaScript type
whereClause(query, filters) ==
  spread(spread([isDeleted |-> [t |-> "boolean", v |-> FALSE]],
                IF query # <<>> THEN [OR |-> [t |-> "search", v |-> query]] ELSE NoKeys),
         [k \in DOMAIN filters |-> [t |-> "string", v |-> filters[k]]])

\* Prisma validates the where clause against UserWhereInput
whereIsValid(w) ==
  \A k \in DOMAIN w :
    CASE k = "isDeleted" -> w[k].t = "boolean"
      [] k = "OR" -> w[k].t = "search"
      [] k \in StringFields \cup {"password"} -> w[k].t = "string"
      [] k = "role" -> w[k].t = "string" /\ w[k].v \in Roles
      [] k = "status" -> w[k].t = "string" /\ w[k].v \in Statuses
      [] OTHER -> FALSE

whereMatches(u, w) ==
  \A k \in DOMAIN w :
    CASE k = "isDeleted" -> u.isDeleted = w[k].v
      [] k = "OR" ->
           \/ containsInsensitive(<<u.firstName>>, w[k].v)
           \/ containsInsensitive(<<u.lastName>>, w[k].v)
           \/ containsInsensitive(u.middleName, w[k].v)
           \/ containsInsensitive(<<u.email>>, w[k].v)
      [] k = "password" -> u.password = rawString(w[k].v)
      [] k \in {"middleName", "avatar"} -> u[k] = <<w[k].v>>
      [] OTHER -> u[k] = w[k].v

\* orderBy one numeric column; records that tie keep their insertion order
RECURSIVE insertSorted(_, _, _, _)
insertSorted(sorted, u, column, order) ==
  IF sorted = <<>> THEN <<u>>
  ELSE LET y == sorted[Len(sorted)]
           goesLast == IF order = "asc" THEN y[column] <= u[column]
                       ELSE y[column] >= u[column]
       IN IF goesLast THEN Append(sorted, u)
          ELSE Append(insertSorted(SubSeq(sorted, 1, Len(sorted) - 1), u, column, order), y)

RECURSIVE orderBy(_, _, _, _)
orderBy(us, i, column, order) ==
  IF i = 0 THEN <<>>
  ELSE insertSorted(orderBy(us, i - 1, column, order), us[i], column, order)

matching(us, w) ==
  LET M(u) == whereMatches(u, w)
  IN SelectSeq(us, M)

min(a, b) == IF a <= b THEN a ELSE b

\* the quotient rounded down
floorDiv(total, limit) == total \div limit

\* Math.ceil(total / limit)
ceilDiv(total, limit) == (total + limit - 1) \div limit

(***************************************************************************)
(* Service results                                                         *)
(***************************************************************************)
result(success, message, data, token, pagination) ==
  [success |-> success, message |-> message, data |-> data, token |-> token,
   pagination |-> pagination]

failure(message) == result(FALSE, message, <<>>, <<>>, <<>>)

\* what a service call does: the collection it leaves and the result it returns
outcome(us, res) == [users |-> us, res |-> res]

(***************************************************************************)
(* services/user.service                                                   *)
(***************************************************************************)
DefaultPage == 1
DefaultLimit == 10

\* getAllUsers where findMany reads the collection `listed` and count reads
\* the collection `counted`: the two queries of Promise.all are separate
\* reads of the store
getAllUsersOver(listed, counted, params) ==
  LET page == withDefault(params.page, DefaultPage)
      limit == withDefault(params.limit, DefaultLimit)
      order == withDefault(params.order, "desc")
      skip == (page - 1) * limit
      where == whereClause(params.query, params.filters)
      column == withDefault(params.sort, "createdAt")
      selection == fieldSelections(params.fields)
  IN IF selection.err \/ ~selectIsValid(selection.sel) \/ ~whereIsValid(where)
     THEN failure("Server error")
     ELSE LET found == matching(listed, where)
              sorted == orderBy(found, Len(found), column, order)
              total == Len(matching(counted, where))
              rows == SubSeq(sorted, skip + 1, min(skip + limit, Len(found)))
          IN result(TRUE, "Users retrieved successfully",
                    [i \in 1..Len(rows) |-> project(rows[i], selection.sel)],
                    <<>>,
                    <<[total |-> total, page |-> page, limit |-> limit,
                       totalPages |-> ceilDiv(total, limit),
                       hasMore |-> skip + limit < total]>>)

\* a call that nothing interleaves with
getAllUsers(us, params) == getAllUsersOver(us, us, params)

getUserById(us, id, fields) ==
  LET selection == fieldSelections(fields)
  IN IF selection.err \/ ~selectIsValid(selection.sel) THEN failure("Server error")
     ELSE LET user == findLiveById(us, id)
          IN IF user = Null THEN failure("User not found")
             ELSE result(TRUE, "User retrieved successfully",
                         <<project(user[1], selection.sel)>>, <<>>, <<>>)

CreatedUserSelect ==
  selectOf({"id", "firstName", "lastName", "middleName", "email", "metadata", "createdAt"})

\* register and createUserAdmin from the hashing on: `existing` is what the
\* findUnique by email returned, us the collection when create runs
createFrom(existing, us, data, salt, t) ==
  IF existing # Null THEN outcome(us, failure("User already exists"))
  ELSE LET hashedPassword == bcryptHash(data.password, salt)
           created == prismaCreate(us, [data EXCEPT !.password = hashedPassword], t)
       IN IF created.err THEN outcome(us, failure("Server error"))
          ELSE outcome(created.users,
                       result(TRUE, "User created successfully",
                              <<project(created.user[1], CreatedUserSelect)>>,
                              <<jwtSign(created.user[1].id, JWT_SECRET, t)>>, <<>>))

createUserAdminFrom(existing, us, data, userRole, salt, t) ==
  IF requireAdminPermission(userRole) # Returned THEN outcome(us, failure("Server error"))
  ELSE createFrom(existing, us, data, salt, t)

createUserAdmin(us, data, userRole, salt, t) ==
  createUserAdminFrom(findByEmail(us, data.email), us, data, userRole, salt, t)

UpdatedUserSelect ==
  selectOf({"id", "firstName", "lastName", "middleName", "email", "role", "status",
            "avatar", "metadata", "createdAt", "updatedAt"})

\* updateUser from the update call on
updateUserFrom(existingUser, us, id, data, salt, t) ==
  IF existingUser = Null THEN outcome(us, failure("User not found"))
  ELSE LET updateData ==
             IF data.password # Null /\ data.password[1] # ""
             THEN [data EXCEPT !.password = <<bcryptHash(data.password[1], salt)>>]
             ELSE [data EXCEPT !.password =
                     IF data.password = Null THEN Null ELSE <<rawString(data.password[1])>>]
           updated == prismaUpdate(us, id, spread(updateData, [updatedAt |-> <<t>>]))
       IN IF updated.err THEN outcome(us, failure("Server error"))
          ELSE outcome(updated.users,
                       result(TRUE, "User updated successfully",
                              <<project(updated.user[1], UpdatedUserSelect)>>, <<>>, <<>>))

updateUser(us, id, data, userRole, salt, t) ==
  IF requireWritePermission(userRole) # Returned THEN outcome(us, failure("Server error"))
  ELSE updateUserFrom(findLiveById(us, id), us, id, data, salt, t)

\* deleteUser from the update call on
deleteUserFrom(existingUser, us, id, t) ==
  IF existingUser = Null THEN outcome(us, failure("User not found"))
  ELSE LET updated == prismaUpdate(us, id, [isDeleted |-> <<TRUE>>, updatedAt |-> <<t>>])
       IN IF updated.err THEN outcome(us, failure("Server error"))
          ELSE outcome(updated.users,
                       result(TRUE, "User deleted successfully", <<>>, <<>>, <<>>))

deleteUser(us, id, userRole, t) ==
  IF requireDeletePermission(userRole) # Returned THEN outcome(us, failure("Server error"))
  ELSE deleteUserFrom(findLiveById(us, id), us, id, t)

(***************************************************************************)
(* services/auth.service                                                   *)
(***************************************************************************)
register(us, data, salt, t) == createFrom(findByEmail(us, data.email), us, data, salt, t)

\* login without the role check
loginAnyRole(us, email, password, role, t) ==
  LET user == findByEmail(us, email)
  IN IF user = Null THEN failure("Invalid credentials")
     ELSE IF ~bcryptCompare(password, user[1].password) THEN failure("Invalid credentials")
     ELSE result(TRUE, "Login successful",
                 <<[id |-> user[1].id, role |-> user[1].role]>>,
                 <<jwtSign(user[1].id, JWT_SECRET, t)>>, <<>>)

\* login with a message of its own for a wrong password
loginWrongPassword(us, email, password, role, t) ==
  LET user == findByEmail(us, email)
  IN IF user = Null THEN failure("Invalid credentials")
     ELSE IF user[1].role # role
     THEN failure("Access denied: Invalid role for this login")
     ELSE IF ~bcryptCompare(password, user[1].password) THEN failure("Wrong password")
     ELSE result(TRUE, "Login successful",
                 <<[id |-> user[1].id, role |-> user[1].role]>>,
                 <<jwtSign(user[1].id, JWT_SECRET, t)>>, <<>>)

login(us, email, password, role, t) ==
  LET user == findByEmail(us, email)
  IN IF user = Null THEN failure("Invalid credentials")
     ELSE IF user[1].role # role
     THEN failure("Access denied: Invalid role for this login")
     ELSE IF ~bcryptCompare(password, user[1].password) THEN failure("Invalid credentials")
     ELSE result(TRUE, "Login successful",
                 <<[id |-> user[1].id,
                    firstName |-> user[1].firstName,
                    lastName |-> user[1].lastName,
                    middleName |-> user[1].middleName,
                    email |-> user[1].email,
                    role |-> user[1].role,
                    createdAt |-> user[1].createdAt]>>,
                 <<jwtSign(user[1].id, JWT_SECRET, t)>>, <<>>)

(***************************************************************************)
(* middleware/auth                                                         *)
(***************************************************************************)
\* req.headers.authorization?.replace("Bearer ", ""): a header is a prefix
\* and a credential; what is left is undefined or empty (<<>>), a JWT, or
\* some other string, which is no well-formed JWT
bearerToken(authorization) ==
  IF authorization = Null THEN Null
  ELSE IF authorization[1].prefix \in {"Bearer ", ""}
  THEN IF authorization[1].credential = Null THEN Null
       ELSE <<[wellFormed |-> TRUE, jwt |-> authorization[1].credential[1]]>>
  ELSE <<[wellFormed |-> FALSE, jwt |-> Null]>>

AuthUserSelect ==
  selectOf({"id", "email", "firstName", "lastName", "middleName", "role", "status",
            "createdAt"})

\* what a middleware or a handler leaves behind: whether it called next, the
\* response it sent (status 0: none), the user it attached to the request,
\* and the error it threw
passed(user) ==
  [next |-> TRUE, status |-> 0, message |-> "", user |-> user, thrown |-> Null]

responded(status, message) ==
  [next |-> FALSE, status |-> status, message |-> message, user |-> Null, thrown |-> Null]

threw(message) ==
  [next |-> FALSE, status |-> 0, message |-> "", user |-> Null, thrown |-> <<message>>]

returned == [next |-> FALSE, status |-> 0, message |-> "", user |-> Null, thrown |-> Null]

authenticate(us, authorization, t) ==
  LET token == bearerToken(authorization)
  IN IF token = Null THEN responded(401, "No token, authorization denied")
     ELSE IF ~jwtVerifies(token[1], JWT_SECRET, t) THEN responded(401, "Token is not valid")
     ELSE LET user == findLiveActiveById(us, token[1].jwt.userId)
          IN IF user = Null THEN responded(401, "Token is not valid")
             ELSE passed(<<project(user[1], AuthUserSelect)>>)

(***************************************************************************)
(* middleware/rbac: the middleware factories                               *)
(***************************************************************************)
requireRole(allowedRoles, reqUser) ==
  IF reqUser = Null THEN responded(401, "Authentication required")
  ELSE IF ~isRoleAllowed(reqUser[1].role, allowedRoles)
  THEN responded(403, "Insufficient permissions")
  ELSE passed(reqUser)

\* a permission guard that asks for all of the listed permissions
requireEveryPermission(permissions, reqUser) ==
  IF reqUser = Null THEN responded(401, "Authentication required")
  ELSE IF ~hasAllPermissions(reqUser[1].role, permissions)
  THEN responded(403, "Insufficient permissions")
  ELSE passed(reqUser)

requirePermission(permissions, reqUser) ==
  IF reqUser = Null THEN responded(401, "Authentication required")
  ELSE IF ~hasAnyPermission(reqUser[1].role, permissions)
  THEN responded(403, "Insufficient permissions")
  ELSE passed(reqUser)

requireAdmin(reqUser) == requireRole(<<"admin">>, reqUser)

(***************************************************************************)
(* routes/user.route                                                       *)
(***************************************************************************)
\* The request object where a role is expected: as a key of ROLE_PERMISSIONS
\* it reads "[object Object]", and it is truthy.
RequestObject == "[object Object]"

\* A service wrapper (userRole) => void mounted as a middleware: Express calls
\* it with (req, res, next), so userRole is the request object; it throws or
\* returns, and never calls next nor sends a response.
mountedGuard(guardOutcome) ==
  IF guardOutcome # Returned THEN threw(guardOutcome) ELSE returned

\* middleware/error.handler, where Express sends what a middleware throws
errorHandler(message) == responded(500, "Server error")

roleOf(reqUser) == IF reqUser = Null THEN Undefined ELSE reqUser[1].role

\* the handlers: the service result mapped to a response
updateUserHandler(us, id, body, reqUser, salt, t) ==
  LET o == updateUser(us, id, body, roleOf(reqUser), salt, t)
  IN [users |-> o.users, res |-> <<o.res>>,
      http |-> responded(IF o.res.success THEN 200 ELSE 404, o.res.message)]

deleteUserHandler(us, id, reqUser, t) ==
  LET o == deleteUser(us, id, roleOf(reqUser), t)
  IN [users |-> o.users, res |-> <<o.res>>,
      http |-> responded(IF o.res.success THEN 200 ELSE 404, o.res.message)]

\* one request through authenticate, a guard and a handler (given as the
\* outcome it would have)
pipeline(us, auth, guard, handled) ==
  IF ~auth.next THEN [users |-> us, res |-> Null, http |-> auth]
  ELSE IF guard.thrown # Null
  THEN [users |-> us, res |-> Null, http |-> errorHandler(guard.thrown[1])]
  ELSE IF ~guard.next THEN [users |-> us, res |-> Null, http |-> guard]
  ELSE handled

\* a middleware that is not there: it calls next
noGuard(reqUser) == passed(reqUser)

getUserByIdHandler(us, id, fields) ==
  LET res == getUserById(us, id, fields)
  IN [users |-> us, res |-> <<res>>,
      http |-> responded(IF res.success THEN 200 ELSE 404, res.message)]

\* router.get("/:id", authenticate, getUserById)
getUser(us, authorization, id, fields, t) ==
  LET auth == authenticate(us, authorization, t)
  IN pipeline(us, auth, noGuard(auth.user), getUserByIdHandler(us, id, fields))

\* router.patch("/:id", authenticate, requireWritePermission, updateUser)
patchUser(us, authorization, id, body, salt, t) ==
  LET auth == authenticate(us, authorization, t)
  IN pipeline(us, auth, mountedGuard(requireWritePermission(RequestObject)),
              updateUserHandler(us, id, body, auth.user, salt, t))

\* router.put("/:id", authenticate, requireDeletePermission, deleteUser)
putUser(us, authorization, id, t) ==
  LET auth == authenticate(us, authorization, t)
  IN pipeline(us, auth, mountedGuard(requireDeletePermission(RequestObject)),
              deleteUserHandler(us, id, auth.user, t))

(***************************************************************************)
(* Inputs                                                                  *)
(***************************************************************************)
Maybe(S) == {Null} \cup {<<x>> : x \in S}

ActingRoles == {"admin", "driver", Undefined}

\* CreateUserData
createData(email, role, status) ==
  [email |-> email, firstName |-> <<"A", "n">>, lastName |-> <<"L", "i">>,
   middleName |-> Null, password |-> "p1", role |-> role, status |-> status]

CreateInputs ==
  {createData(e, r, st) : e \in Emails, r \in Maybe(Roles), st \in {Null, <<"inactive">>}}

AdminCreateInputs == {createData(e, r, Null) : e \in Emails, r \in {Null, <<"driver">>}}

\* UpdateUserData: one field given, or none
NoUpdate ==
  [firstName |-> Null, lastName |-> Null, middleName |-> Null, email |-> Null,
   role |-> Null, status |-> Null, avatar |-> Null, password |-> Null,
   metadata |-> Null]

\* a request body may name any key of the record besides those of UpdateUserData
NoBody ==
  spread(NoUpdate, [id |-> Null, createdAt |-> Null, updatedAt |-> Null,
                    isDeleted |-> Null])

EmailUpdates == {[NoUpdate EXCEPT !.email = <<e>>] : e \in Emails}

StatusUpdates == {[NoUpdate EXCEPT !.status = <<st>>] : st \in Statuses}

UpdateInputs == {NoUpdate} \cup EmailUpdates

\* values of the `fields` parameter
FieldsInputs ==
  {<<>>, <<"password">>, <<"email", ",", " ", "password">>, <<"id", ".", "x">>, <<"nope">>}

NoParams ==
  [page |-> Null, limit |-> Null, sort |-> Null, order |-> Null, fields |-> <<>>,
   query |-> <<>>, filters |-> NoKeys]

\* parameters of getAllUsers, as the route builds them from a query string
ListInputs ==
  {NoParams,
   [NoParams EXCEPT !.fields = <<"password">>],
   [NoParams EXCEPT !.fields = <<"password">>, !.filters = [isDeleted |-> "true"]],
   [NoParams EXCEPT !.fields = <<"email", ",", "password">>, !.query = <<"b", "@">>],
   [NoParams EXCEPT !.fields = <<"email">>, !.page = <<2>>, !.limit = <<1>>,
                    !.order = <<"asc">>],
   [NoParams EXCEPT !.fields = <<"role">>, !.filters = [role |-> "driver"]]}

\* Authorization headers: none, an empty bearer, a token this server signed
\* for a stored user at some time since the user exists, a token signed with
\* another secret, and a header of another scheme
SignedTokens(us, t) ==
  {jwtSign(id, JWT_SECRET, iat) :
     id \in 1..Len(us), iat \in {i \in 0..t : \E u \in 1..Len(us) : us[u].createdAt <= i}}

bearer(tok) == <<[prefix |-> "Bearer ", credential |-> <<tok>>]>>

Headers(us, t) ==
  {Null, <<[prefix |-> "Bearer ", credential |-> Null]>>,
   bearer(jwtSign(1, "other", t)),
   <<[prefix |-> "Basic ", credential |-> <<jwtSign(1, JWT_SECRET, t)>>]>>,
   <<[prefix |-> "", credential |-> <<jwtSign(1, JWT_SECRET, t)>>]>>}
    \cup {bearer(tok) : tok \in {x \in SignedTokens(us, t) : us[x.userId].createdAt <= x.iat}}

(***************************************************************************)
(* State                                                                   *)
(*   users       the user collection                                       *)
(*   last        the last call or request: what it was and what it got     *)
(*   now         the clock, in days                                        *)
(*   registered  the emails a register or createUserAdmin call succeeded   *)
(*               for (history)                                             *)
(*   deleted     the ids a deleteUser call succeeded for (history)         *)
(*   inflight    the calls that have read and not yet written              *)
(***************************************************************************)
Procs == {1, 2}

Idle == [op |-> "idle"]

call(op, arg, res, http, auth) ==
  [op |-> op, arg |-> arg, res |-> res, http |-> http, auth |-> auth]

Init ==
  /\ users = <<>>
  /\ last = call("none", Null, Null, Null, Null)
  /\ now = 0
  /\ registered = {}
  /\ deleted = {}
  /\ inflight = [p \in Procs |-> Idle]

noteCreated(res, email) == IF res.success THEN registered \cup {email} ELSE registered

noteDeleted(res, id) == IF res.success THEN deleted \cup {id} ELSE deleted

\* what a create call is asked, and what held when it was made: whether the
\* email was created before, the records that carry it, the size of the store
createArg(data, userRole) ==
  [email |-> data.email, userRole |-> userRole,
   known |-> data.email \in registered,
   held |-> SelectSeq(users, LAMBDA u : u.email = data.email),
   count |-> Len(users)]

(***************************************************************************)
(* Service calls, each run to completion                                   *)
(***************************************************************************)
Register(inputs) ==
  \E data \in inputs, salt \in Salts :
    LET o == register(users, data, salt, now)
    IN /\ Len(o.users) <= MaxUsers
       /\ users' = o.users
       /\ last' = call("register", createArg(data, Undefined), <<o.res>>, Null, Null)
       /\ registered' = noteCreated(o.res, data.email)
       /\ UNCHANGED <<now, deleted, inflight>>

CreateUserAdmin(inputs, roles) ==
  \E data \in inputs, userRole \in roles, salt \in Salts :
    LET o == createUserAdmin(users, data, userRole, salt, now)
    IN /\ Len(o.users) <= MaxUsers
       /\ users' = o.users
       /\ last' = call("createUserAdmin", createArg(data, userRole), <<o.res>>, Null, Null)
       /\ registered' = noteCreated(o.res, data.email)
       /\ UNCHANGED <<now, deleted, inflight>>

Login ==
  \E email \in Emails, password \in Passwords, role \in Roles :
    /\ last' = call("login", [email |-> email, password |-> password, role |-> role],
                    <<login(users, email, password, role, now)>>, Null, Null)
    /\ UNCHANGED <<users, now, registered, deleted, inflight>>

GetUserById ==
  \E id \in Ids, fields \in FieldsInputs :
    /\ last' = call("getUserById", [id |-> id, fields |-> fields],
                    <<getUserById(users, id, fields)>>, Null, Null)
    /\ UNCHANGED <<users, now, registered, deleted, inflight>>

GetAllUsers ==
  \E params \in ListInputs :
    /\ last' = call("getAllUsers", params, <<getAllUsers(users, params)>>, Null, Null)
    /\ UNCHANGED <<users, now, registered, deleted, inflight>>

UpdateUser(inputs, roles) ==
  \E id \in Ids, data \in inputs, userRole \in roles, salt \in Salts :
    LET o == updateUser(users, id, data, userRole, salt, now)
    IN /\ users' = o.users
       /\ last' = call("updateUser", [id |-> id, userRole |-> userRole], <<o.res>>,
                       Null, Null)
       /\ UNCHANGED <<now, registered, deleted, inflight>>

DeleteUser(roles) ==
  \E id \in Ids, userRole \in roles :
    LET o == deleteUser(users, id, userRole, now)
    IN /\ users' = o.users
       /\ last' = call("deleteUser", [id |-> id, userRole |-> userRole], <<o.res>>,
                       Null, Null)
       /\ deleted' = noteDeleted(o.res, id)
       /\ UNCHANGED <<now, registered, inflight>>

Next ==
  \/ Register(CreateInputs)
  \/ CreateUserAdmin(AdminCreateInputs, ActingRoles)
  \/ Login
  \/ GetUserById
  \/ GetAllUsers
  \/ UpdateUser(UpdateInputs, ActingRoles)
  \/ DeleteUser(ActingRoles)

Spec == Init /\ [][Next]_vars

(***************************************************************************)
(* Requests to the mutating routes                                         *)
(***************************************************************************)
\* what a request is, and what held when it was made
requestArg(authorization, id) ==
  [authorization |-> authorization, id |-> id, target |-> findLiveById(users, id),
   before |-> users, at |-> now]

PatchUser ==
  \E authorization \in Headers(users, now), id \in Ids, body \in UpdateInputs,
     salt \in Salts :
    LET o == patchUser(users, authorization, id, body, salt, now)
    IN /\ users' = o.users
       /\ last' = call("PATCH /user/:id", requestArg(authorization, id), o.res,
                       <<o.http>>, <<authenticate(users, authorization, now)>>)
       /\ UNCHANGED <<now, registered, deleted, inflight>>

PutUser ==
  \E authorization \in Headers(users, now), id \in Ids :
    LET o == putUser(users, authorization, id, now)
    IN /\ users' = o.users
       /\ last' = call("PUT /user/:id", requestArg(authorization, id), o.res,
                       <<o.http>>, <<authenticate(users, authorization, now)>>)
       /\ deleted' = IF o.res # Null THEN noteDeleted(o.res[1], id) ELSE deleted
       /\ UNCHANGED <<now, registered, inflight>>

HttpSeedInputs ==
  {createData(e, r, st) :
     e \in Emails, r \in {Null, <<"admin">>, <<"driver">>}, st \in {Null, <<"inactive">>}}

NextHttp ==
  \/ Register(HttpSeedInputs)
  \/ DeleteUser({"admin"})
  \/ PatchUser
  \/ PutUser

SpecHttp == Init /\ [][NextHttp]_vars

(***************************************************************************)
(* Requests through authenticate while the clock runs                      *)
(***************************************************************************)
Tick ==
  /\ now < MaxNow
  /\ now' = now + 1
  /\ UNCHANGED <<users, last, registered, deleted, inflight>>

GetUser ==
  \E authorization \in Headers(users, now), id \in 1..Len(users), fields \in {<<>>} :
    LET o == getUser(users, authorization, id, fields, now)
    IN /\ last' = call("GET /user/:id", requestArg(authorization, id), o.res,
                       <<o.http>>, <<authenticate(users, authorization, now)>>)
       /\ UNCHANGED <<users, now, registered, deleted, inflight>>

AuthSeedInputs == {createData(<<"a", "@", "x">>, Null, Null)}

NextAuth ==
  \/ Tick
  \/ Register(AuthSeedInputs)
  \/ UpdateUser(StatusUpdates, {"admin"})
  \/ DeleteUser({"admin"})
  \/ GetUser

SpecAuth == Init /\ [][NextAuth]_vars

(***************************************************************************)
(* Concurrent calls: a call reads the collection (its findUnique), awaits, *)
(* and writes later; other calls run in between.                           *)
(***************************************************************************)
ConcCreateInputs == {createData(e, Null, Null) : e \in Emails}

BeginCreate(p) ==
  \E data \in ConcCreateInputs, op \in {"register", "createUserAdmin"} :
    /\ inflight[p] = Idle
    /\ inflight' = [inflight EXCEPT ![p] =
                      [op |-> op, data |-> data, arg |-> createArg(data, "admin"),
                       existing |-> findByEmail(users, data.email)]]
    /\ UNCHANGED <<users, last, now, registered, deleted>>

FinishCreate(p) ==
  \E salt \in Salts :
    /\ inflight[p] # Idle
    /\ inflight[p].op \in {"register", "createUserAdmin"}
    /\ LET c == inflight[p]
           o == IF c.op = "register"
                THEN createFrom(c.existing, users, c.data, salt, now)
                ELSE createUserAdminFrom(c.existing, users, c.data, "admin", salt, now)
       IN /\ Len(o.users) <= MaxUsers
          /\ users' = o.users
          /\ last' = call(c.op, c.arg, <<o.res>>, Null, Null)
          /\ registered' = noteCreated(o.res, c.data.email)
    /\ inflight' = [inflight EXCEPT ![p] = Idle]
    /\ UNCHANGED <<now, deleted>>

\* payloads of the interleaved updates: UpdateUserData with an email, or a
\* request body that names isDeleted
ConcUpdateInputs == EmailUpdates \cup {[NoBody EXCEPT !.isDeleted = <<FALSE>>]}

BeginUpdate(p) ==
  \E id \in 1..MaxUsers, data \in ConcUpdateInputs :
    /\ inflight[p] = Idle
    /\ requireWritePermission("admin") = Returned
    /\ inflight' = [inflight EXCEPT ![p] =
                      [op |-> "updateUser", id |-> id, data |-> data,
                       existing |-> findLiveById(users, id)]]
    /\ UNCHANGED <<users, last, now, registered, deleted>>

FinishUpdate(p) ==
  \E salt \in Salts :
    /\ inflight[p] # Idle
    /\ inflight[p].op = "updateUser"
    /\ LET c == inflight[p]
           o == updateUserFrom(c.existing, users, c.id, c.data, salt, now)
       IN /\ users' = o.users
          /\ last' = call(c.op, [id |-> c.id, userRole |-> "admin"], <<o.res>>, Null, Null)
    /\ inflight' = [inflight EXCEPT ![p] = Idle]
    /\ UNCHANGED <<now, registered, deleted>>

BeginDelete(p) ==
  \E id \in 1..MaxUsers :
    /\ inflight[p] = Idle
    /\ requireDeletePermission("admin") = Returned
    /\ inflight' = [inflight EXCEPT ![p] =
                      [op |-> "deleteUser", id |-> id, existing |-> findLiveById(users, id),
                       later |-> id \in deleted]]
    /\ UNCHANGED <<users, last, now, registered, deleted>>

FinishDelete(p) ==
  /\ inflight[p] # Idle
  /\ inflight[p].op = "deleteUser"
  /\ LET c == inflight[p]
         o == deleteUserFrom(c.existing, users, c.id, now)
     IN /\ users' = o.users
        /\ last' = call(c.op, [id |-> c.id, userRole |-> "admin", later |-> c.later],
                        <<o.res>>, Null, Null)
        /\ deleted' = noteDeleted(o.res, c.id)
  /\ inflight' = [inflight EXCEPT ![p] = Idle]
  /\ UNCHANGED <<now, registered>>

NextConc ==
  \E p \in Procs :
    \/ BeginCreate(p)
    \/ FinishCreate(p)
    \/ BeginUpdate(p)
    \/ FinishUpdate(p)
    \/ BeginDelete(p)
    \/ FinishDelete(p)

SpecConc == Init /\ [][NextConc]_vars

(***************************************************************************)
(* middleware/rbac on its own: the rbac functions and the guard factories  *)
(* applied to every role, permission and list up to MaxList long           *)
(***************************************************************************)
SeqsUpTo(S, n) == UNION {[1..k -> S] : k \in 0..n}

RbacRoles == Roles \cup {Undefined, RequestObject}

GuardUsers == {Null} \cup {<<[id |-> 1, role |-> r]>> : r \in Roles}

CheckRbac ==
  \E userRole \in RbacRoles, permission \in Permissions,
     permissions \in SeqsUpTo(Permissions, MaxList) :
    /\ last' = call("rbac",
                    [userRole |-> userRole, permission |-> permission,
                     permissions |-> permissions],
                    <<[has |-> hasPermission(userRole, permission),
                       adminAll |-> hasPermission(userRole, "admin:all"),
                       any |-> hasAnyPermission(userRole, permissions),
                       all |-> hasAllPermissions(userRole, permissions)]>>,
                    Null, Null)
    /\ UNCHANGED <<users, now, registered, deleted, inflight>>

RequireRole ==
  \E allowedRoles \in SeqsUpTo(Roles, MaxList), reqUser \in GuardUsers :
    /\ last' = call("requireRole", [listed |-> allowedRoles, reqUser |-> reqUser],
                    Null, <<requireRole(allowedRoles, reqUser)>>, Null)
    /\ UNCHANGED <<users, now, registered, deleted, inflight>>

RequirePermission ==
  \E permissions \in SeqsUpTo(Permissions, MaxList), reqUser \in GuardUsers :
    /\ last' = call("requirePermission", [listed |-> permissions, reqUser |-> reqUser],
                    Null, <<requirePermission(permissions, reqUser)>>, Null)
    /\ UNCHANGED <<users, now, registered, deleted, inflight>>

\* Values of userRole that are not keys of ROLE_PERMISSIONS.  The table is
\* an object literal, so a name it inherits from Object.prototype reads as a
\* truthy value that is no array: `|| []` does not replace it, and
\* permissions.includes is not a function.
InheritedKeys == {"constructor"}

ForeignRoles == {Undefined, RequestObject} \cup InheritedKeys

hasPermissionThrows(userRole) == userRole \in InheritedKeys

\* some and every call hasPermission for the first element, if there is one;
\* a result below is false when the call threw
hasAnyPermissionThrows(userRole, permissions) ==
  permissions # <<>> /\ hasPermissionThrows(userRole)

CheckForeignRole ==
  \E userRole \in ForeignRoles, permission \in Permissions,
     permissions \in SeqsUpTo(Permissions, MaxList) :
    /\ last' = call("rbacForeign",
                    [userRole |-> userRole, permission |-> permission,
                     permissions |-> permissions],
                    <<[hasThrew |-> hasPermissionThrows(userRole),
                       listThrew |-> hasAnyPermissionThrows(userRole, permissions),
                       has |-> /\ ~hasPermissionThrows(userRole)
                               /\ hasPermission(userRole, permission),
                       any |-> /\ ~hasAnyPermissionThrows(userRole, permissions)
                               /\ hasAnyPermission(userRole, permissions),
                       all |-> /\ ~hasAnyPermissionThrows(userRole, permissions)
                               /\ hasAllPermissions(userRole, permissions)]>>,
                    Null, Null)
    /\ UNCHANGED <<users, now, registered, deleted, inflight>>

NextRbac ==
  \/ CheckRbac
  \/ RequireRole
  \/ RequirePermission
  \/ CheckForeignRole

SpecRbac == Init /\ [][NextRbac]_vars

(***************************************************************************)
(* Listing: a collection of up to MaxListed users, some of them drivers,   *)
(* some soft-deleted, listed with every page and limit up to MaxPage, with *)
(* search strings and with filters                                         *)
(***************************************************************************)
\* the email of the i-th user: a@x, B@xx, a@xxx, ...
listedEmail(i) == <<IF i % 2 = 1 THEN "a" ELSE "B", "@">> \o [j \in 1..i |-> "x"]

Enlist ==
  \E role \in {Null, <<"driver">>}, salt \in Salts :
    LET data == createData(listedEmail(Len(users) + 1), role, Null)
        o == register(users, data, salt, now)
    IN /\ Len(users) < MaxListed
       /\ users' = o.users
       /\ last' = call("register", createArg(data, Undefined), <<o.res>>, Null, Null)
       /\ registered' = noteCreated(o.res, data.email)
       /\ UNCHANGED <<now, deleted, inflight>>

Unlist ==
  \E id \in 1..Len(users) :
    LET o == deleteUser(users, id, "admin", now)
    IN /\ users' = o.users
       /\ last' = call("deleteUser", [id |-> id, userRole |-> "admin"], <<o.res>>,
                       Null, Null)
       /\ deleted' = noteDeleted(o.res, id)
       /\ UNCHANGED <<now, registered, inflight>>

\* page and limit, each absent or a number from 1 on
PagedInputs ==
  {[NoParams EXCEPT !.page = page, !.limit = limit, !.order = order] :
     page \in Maybe(1..MaxPage), limit \in Maybe(1..MaxPage),
     order \in {Null, <<"asc">>}}

\* `query`, as the route passes it on
SearchInputs ==
  {[NoParams EXCEPT !.query = q, !.filters = f] :
     q \in {<<"b">>, <<"x", "x", "x">>, <<"a", "N">>, <<"z">>},
     f \in {NoKeys, [role |-> "driver"]}}

\* filter_<field>=<value> parameters, as the route collects them
FilterInputs ==
  {[NoParams EXCEPT !.filters = f, !.query = q] :
     f \in {[role |-> "driver"], [role |-> "driver", status |-> "active"],
            [role |-> "passenger", status |-> "banned"], [nope |-> "x"],
            [isDeleted |-> "true"], [OR |-> "b"]},
     q \in {<<>>, <<"b">>}}

ListUsers ==
  \E params \in PagedInputs \cup SearchInputs \cup FilterInputs :
    /\ last' = call("getAllUsers", params, <<getAllUsers(users, params)>>, Null, Null)
    /\ UNCHANGED <<users, now, registered, deleted, inflight>>

NextList ==
  \/ Enlist
  \/ Unlist
  \/ ListUsers

SpecList == Init /\ [][NextList]_vars

(***************************************************************************)
(* The projection builder on its own: `fields` strings made of up to       *)
(* MaxPaths dotted paths, with and without blanks around the commas        *)
(***************************************************************************)
Words == {"id", "firstName", "metadata", "phone"}

\* paths of one or two segments, and of three under metadata and phone
Paths ==
  UNION {[1..k -> Words] : k \in 1..2} \cup [1..3 -> {"metadata", "phone"}]

RECURSIVE join(_, _)
join(strs, sep) ==
  IF strs = <<>> THEN <<>>
  ELSE IF Len(strs) = 1 THEN strs[1]
  ELSE strs[1] \o <<sep>> \o join(Tail(strs), sep)

\* the `fields` string that asks for the paths
fieldsOf(paths, blanks) ==
  join([i \in 1..Len(paths) |->
          IF blanks THEN <<" ">> \o join([j \in 1..Len(paths[i]) |-> <<paths[i][j]>>], ".")
                         \o <<" ">>
          ELSE join([j \in 1..Len(paths[i]) |-> <<paths[i][j]>>], ".")],
       ",")

InitFields ==
  /\ users = <<>>
  /\ \E paths \in SeqsUpTo(Paths, MaxPaths), blanks \in BOOLEAN :
       last = call("fields", [paths |-> paths, fields |-> fieldsOf(paths, blanks)],
                   Null, Null, Null)
  /\ now = 0
  /\ registered = {}
  /\ deleted = {}
  /\ inflight = [p \in Procs |-> Idle]

BuildSelection ==
  /\ last.op = "fields"
  /\ last' = call("fieldSelections", last.arg, <<fieldSelections(last.arg.fields)>>,
                  Null, Null)
  /\ UNCHANGED <<users, now, registered, deleted, inflight>>

NextFields == BuildSelection

SpecFields == InitFields /\ [][NextFields]_vars

(***************************************************************************)
(* The handlers over a store whose calls may fail: every service runs its  *)
(* Prisma calls inside try/catch, and every handler turns the service's    *)
(* result into a response                                                  *)
(***************************************************************************)
\* catch (error) { return { success: false, message: "Server error" } }
caught == failure("Server error")

\* a service call over a store that is up, or whose first call rejects
overStore(up, us, o) == IF up THEN o ELSE outcome(us, caught)

\* the status each handler answers with when the result is a success and
\* when it is not
SuccessStatus ==
  [register |-> 201, login |-> 200, getAllUsers |-> 200, getUserById |-> 200,
   createUserAdmin |-> 201, updateUser |-> 200, deleteUser |-> 200]

FailureStatus ==
  [register |-> 400, login |-> 400, getAllUsers |-> 500, getUserById |-> 404,
   createUserAdmin |-> 400, updateUser |-> 404, deleteUser |-> 404]

respond(handler, res) ==
  responded(IF res.success THEN SuccessStatus[handler] ELSE FailureStatus[handler],
            res.message)

handled(handler, up, o) ==
  call(handler, [up |-> up, before |-> users], <<o.res>>, <<respond(handler, o.res)>>,
       Null)

HandleRegister ==
  \E data \in ConcCreateInputs, salt \in Salts, up \in BOOLEAN :
    LET o == overStore(up, users, register(users, data, salt, now))
    IN /\ Len(o.users) <= MaxUsers
       /\ users' = o.users
       /\ last' = handled("register", up, o)
       /\ registered' = noteCreated(o.res, data.email)
       /\ UNCHANGED <<now, deleted, inflight>>

HandleCreateUserAdmin ==
  \E data \in ConcCreateInputs, salt \in Salts, up \in BOOLEAN :
    LET o == overStore(up, users, createUserAdmin(users, data, "admin", salt, now))
    IN /\ Len(o.users) <= MaxUsers
       /\ users' = o.users
       /\ last' = handled("createUserAdmin", up, o)
       /\ registered' = noteCreated(o.res, data.email)
       /\ UNCHANGED <<now, deleted, inflight>>

HandleLogin ==
  \E email \in Emails, password \in Passwords, up \in BOOLEAN :
    LET o == overStore(up, users, outcome(users, login(users, email, password,
                                                      "passenger", now)))
    IN /\ last' = handled("login", up, o)
       /\ UNCHANGED <<users, now, registered, deleted, inflight>>

HandleGetAllUsers ==
  \E params \in {NoParams, [NoParams EXCEPT !.limit = <<1>>]}, up \in BOOLEAN :
    LET o == overStore(up, users, outcome(users, getAllUsers(users, params)))
    IN /\ last' = handled("getAllUsers", up, o)
       /\ UNCHANGED <<users, now, registered, deleted, inflight>>

HandleGetUserById ==
  \E id \in Ids, up \in BOOLEAN :
    LET o == overStore(up, users, outcome(users, getUserById(users, id, <<>>)))
    IN /\ last' = handled("getUserById", up, o)
       /\ UNCHANGED <<users, now, registered, deleted, inflight>>

HandleUpdateUser ==
  \E id \in Ids, data \in UpdateInputs, salt \in Salts, up \in BOOLEAN :
    LET o == overStore(up, users, updateUser(users, id, data, "admin", salt, now))
    IN /\ users' = o.users
       /\ last' = handled("updateUser", up, o)
       /\ UNCHANGED <<now, registered, deleted, inflight>>

HandleDeleteUser ==
  \E id \in Ids, up \in BOOLEAN :
    LET o == overStore(up, users, deleteUser(users, id, "admin", now))
    IN /\ users' = o.users
       /\ last' = handled("deleteUser", up, o)
       /\ deleted' = noteDeleted(o.res, id)
       /\ UNCHANGED <<now, registered, inflight>>

NextFail ==
  \/ HandleRegister
  \/ HandleCreateUserAdmin
  \/ HandleLogin
  \/ HandleGetAllUsers
  \/ HandleGetUserById
  \/ HandleUpdateUser
  \/ HandleDeleteUser

SpecFail == Init /\ [][NextFail]_vars

(***************************************************************************)
(* Passwords: users created and updated with every password of             *)
(* PasswordInputs, the empty string among them, and logins with each       *)
(***************************************************************************)
PasswordInputs == Passwords \cup {""}

PasswordCreateInputs ==
  {[createData(e, Null, Null) EXCEPT !.password = pw] :
     e \in Emails, pw \in PasswordInputs}

\* UpdateUserData with a password, with another field, with nothing
PasswordUpdates ==
  {NoUpdate, [NoUpdate EXCEPT !.firstName = <<<<"Z">>>>]}
    \cup {[NoUpdate EXCEPT !.password = <<pw>>] : pw \in PasswordInputs}

RegisterWithPassword ==
  \E data \in PasswordCreateInputs, salt \in Salts :
    LET o == register(users, data, salt, now)
    IN /\ Len(o.users) <= MaxUsers
       /\ users' = o.users
       /\ last' = call("register", createArg(data, Undefined),
                       <<o.res>>, Null, Null)
       /\ registered' = noteCreated(o.res, data.email)
       /\ UNCHANGED <<now, deleted, inflight>>

CreateWithPassword ==
  \E data \in PasswordCreateInputs, salt \in Salts :
    LET o == createUserAdmin(users, data, "admin", salt, now)
    IN /\ Len(o.users) <= MaxUsers
       /\ users' = o.users
       /\ last' = call("createUserAdmin", createArg(data, "admin"),
                       <<o.res>>, Null, Null)
       /\ registered' = noteCreated(o.res, data.email)
       /\ UNCHANGED <<now, deleted, inflight>>

UpdateWithPassword ==
  \E id \in Ids, data \in PasswordUpdates, salt \in Salts :
    LET o == updateUser(users, id, data, "admin", salt, now)
    IN /\ users' = o.users
       /\ last' = call("updateUser", [id |-> id, userRole |-> "admin", data |-> data],
                       <<o.res>>, Null, Null)
       /\ UNCHANGED <<now, registered, deleted, inflight>>

LoginWithPassword ==
  \E email \in Emails, password \in PasswordInputs :
    /\ last' = call("login",
                    [email |-> email, password |-> password, role |-> "passenger"],
                    <<login(users, email, password, "passenger", now)>>, Null, Null)
    /\ UNCHANGED <<users, now, registered, deleted, inflight>>

NextPassword ==
  \/ RegisterWithPassword
  \/ CreateWithPassword
  \/ UpdateWithPassword
  \/ LoginWithPassword

SpecPassword == Init /\ [][NextPassword]_vars

(***************************************************************************)
(* Updates with the request body as the payload.  The route hands req.body *)
(* to updateUser as it is, so the payload may carry any key of the record  *)
(* besides those of UpdateUserData.                                        *)
(***************************************************************************)
BodyInputs ==
  {[NoBody EXCEPT !.firstName = <<<<"Z", "e">>>>],
   [NoBody EXCEPT !.status = <<"inactive">>],
   [NoBody EXCEPT !.createdAt = <<MaxNow>>],
   [NoBody EXCEPT !.id = <<MaxUsers>>],
   [NoBody EXCEPT !.isDeleted = <<FALSE>>]}

UpdateSeedInputs == {createData(e, Null, Null) : e \in Emails}

\* the clock of the update runs
Later ==
  /\ now < MaxClock
  /\ now' = now + 1
  /\ UNCHANGED <<users, last, registered, deleted, inflight>>

UpdateWithBody ==
  \E id \in 1..MaxUsers, data \in BodyInputs, salt \in Salts :
    LET o == updateUser(users, id, data, "admin", salt, now)
    IN /\ users' = o.users
       /\ last' = call("updateUser", [id |-> id, userRole |-> "admin", data |-> data],
                       <<o.res>>, Null, Null)
       /\ UNCHANGED <<now, registered, deleted, inflight>>

DeleteAgain ==
  \E id \in 1..MaxUsers :
    LET o == deleteUser(users, id, "admin", now)
    IN /\ users' = o.users
       /\ last' = call("deleteUser", [id |-> id, userRole |-> "admin", data |-> NoBody],
                       <<o.res>>, Null, Null)
       /\ deleted' = noteDeleted(o.res, id)
       /\ UNCHANGED <<now, registered, inflight>>

NextUpdate ==
  \/ Later
  \/ Register(UpdateSeedInputs)
  \/ UpdateWithBody
  \/ DeleteAgain

SpecUpdate == Init /\ [][NextUpdate]_vars

(***************************************************************************)
(* The handlers of the mutating routes, called for a requester of any      *)
(* role.  A service returns a result whatever happens inside it, so the    *)
(* catch of a handler, where 403 is answered, is not entered.              *)
(***************************************************************************)
RequiredPermission ==
  [createUserAdmin |-> "admin:all", updateUser |-> "write:users",
   deleteUser |-> "delete:users"]

handledAs(handler, userRole, id, o) ==
  call(handler, [userRole |-> userRole, id |-> id, before |-> users], <<o.res>>,
       <<respond(handler, o.res)>>, Null)

CreateUserAdminAs ==
  \E data \in ConcCreateInputs, userRole \in ActingRoles, salt \in Salts :
    LET o == createUserAdmin(users, data, userRole, salt, now)
    IN /\ Len(o.users) <= MaxUsers
       /\ users' = o.users
       /\ last' = handledAs("createUserAdmin", userRole, 0, o)
       /\ registered' = noteCreated(o.res, data.email)
       /\ UNCHANGED <<now, deleted, inflight>>

UpdateUserAs ==
  \E id \in Ids, data \in StatusUpdates, userRole \in ActingRoles, salt \in Salts :
    LET o == updateUser(users, id, data, userRole, salt, now)
    IN /\ users' = o.users
       /\ last' = handledAs("updateUser", userRole, id, o)
       /\ UNCHANGED <<now, registered, deleted, inflight>>

DeleteUserAs ==
  \E id \in Ids, userRole \in ActingRoles :
    LET o == deleteUser(users, id, userRole, now)
    IN /\ users' = o.users
       /\ last' = handledAs("deleteUser", userRole, id, o)
       /\ deleted' = noteDeleted(o.res, id)
       /\ UNCHANGED <<now, registered, inflight>>

NextDenied ==
  \/ Register(UpdateSeedInputs)
  \/ CreateUserAdminAs
  \/ UpdateUserAs
  \/ DeleteUserAs

SpecDenied == Init /\ [][NextDenied]_vars

(***************************************************************************)
(* POST /api/auth/register: the handler takes the names and the            *)
(* credentials from the body and leaves the rest of it behind.             *)
(***************************************************************************)
\* a handler that hands the body to the service as it is
registerWholeBody(us, body, salt, t) ==
  LET o == register(us, body, salt, t)
  IN [users |-> o.users, res |-> o.res, http |-> respond("register", o.res)]

registerHandler(us, body, salt, t) ==
  LET data == [body EXCEPT !.role = Null, !.status = Null]
      o == register(us, data, salt, t)
  IN [users |-> o.users, res |-> o.res, http |-> respond("register", o.res)]

PostRegister ==
  \E body \in CreateInputs, salt \in Salts :
    LET o == registerHandler(users, body, salt, now)
    IN /\ Len(o.users) <= MaxUsers
       /\ users' = o.users
       /\ last' = call("register",
                       [email |-> body.email, role |-> body.role, status |-> body.status,
                        count |-> Len(users)],
                       <<o.res>>, <<o.http>>, Null)
       /\ registered' = noteCreated(o.res, body.email)
       /\ UNCHANGED <<now, deleted, inflight>>

NextRegister ==
  \/ Later
  \/ PostRegister
  \/ DeleteUser({"admin"})

SpecRegister == Init /\ [][NextRegister]_vars

(***************************************************************************)
(* The creating services where JWT_SECRET may be unset in the environment: *)
(* the token is then signed with "", which jwt.sign refuses by throwing.   *)
(***************************************************************************)
Creators == {"register", "createUserAdmin"}

Secrets == {JWT_SECRET, ""}

jwtSignThrows(secret) == secret = ""

\* register and createUserAdmin from the lookup on: the record is created
\* before the token is signed, and a throw of jwt.sign lands in the catch
createSigned(existing, us, data, salt, t, secret) ==
  LET o == createFrom(existing, us, data, salt, t)
  IN IF o.res.success /\ jwtSignThrows(secret) THEN outcome(o.users, caught) ELSE o

\* the environment is the same for every call of a run
sameEnvironment(secret) == IF last.op = "none" THEN TRUE ELSE last.arg.secret = secret

CreateSigned ==
  \E data \in ConcCreateInputs, op \in Creators, secret \in Secrets, salt \in Salts :
    LET o == IF op = "createUserAdmin" /\ requireAdminPermission("admin") # Returned
             THEN outcome(users, caught)
             ELSE createSigned(findByEmail(users, data.email), users, data, salt, now,
                               secret)
    IN /\ sameEnvironment(secret)
       /\ Len(o.users) <= MaxUsers
       /\ users' = o.users
       /\ last' = call(op, [email |-> data.email, secret |-> secret, before |-> users],
                       <<o.res>>, Null, Null)
       /\ registered' = noteCreated(o.res, data.email)
       /\ UNCHANGED <<now, deleted, inflight>>

DeleteCreated ==
  \E id \in Ids :
    LET o == deleteUser(users, id, "admin", now)
    IN /\ last.op # "none"
       /\ users' = o.users
       /\ last' = call("deleteUser",
                       [id |-> id, secret |-> last.arg.secret, before |-> users],
                       <<o.res>>, Null, Null)
       /\ deleted' = noteDeleted(o.res, id)
       /\ UNCHANGED <<now, registered, inflight>>

NextSigned ==
  \/ Later
  \/ CreateSigned
  \/ DeleteCreated

SpecSigned == Init /\ [][NextSigned]_vars

(***************************************************************************)
(* getAllUsers with other calls between its two queries.  findMany and     *)
(* count are separate reads that Promise.all puts in flight together; the  *)
(* store may serve either first, and a write of another request may land   *)
(* between them.                                                           *)
(***************************************************************************)
ConcListInputs ==
  {NoParams, [NoParams EXCEPT !.limit = <<1>>],
   [NoParams EXCEPT !.page = <<2>>, !.limit = <<1>>]}

\* the first of the two queries reads the store
BeginList ==
  \E params \in ConcListInputs, first \in {"findMany", "count"} :
    /\ inflight[1] = Idle
    /\ inflight' = [inflight EXCEPT ![1] =
                      [op |-> "getAllUsers", params |-> params, first |-> first,
                       seen |-> users]]
    /\ UNCHANGED <<users, last, now, registered, deleted>>

\* the second query reads the store, and the call returns
FinishList ==
  /\ inflight[1] # Idle
  /\ inflight[1].op = "getAllUsers"
  /\ LET c == inflight[1]
         res == IF c.first = "findMany"
                THEN getAllUsersOver(c.seen, users, c.params)
                ELSE getAllUsersOver(users, c.seen, c.params)
     IN last' = call(c.op, c.params, <<res>>, Null, Null)
  /\ inflight' = [inflight EXCEPT ![1] = Idle]
  /\ UNCHANGED <<users, now, registered, deleted>>

NextPaged ==
  \/ Register(UpdateSeedInputs)
  \/ CreateUserAdmin(UpdateSeedInputs, {"admin"})
  \/ DeleteUser({"admin"})
  \/ BeginList
  \/ FinishList

SpecPaged == Init /\ [][NextPaged]_vars

(***************************************************************************)
(* Properties                                                              *)
(***************************************************************************)
Mutations == {"PATCH /user/:id", "PUT /user/:id"}

hasResult == last.res # Null

\* the stored record with the email of the last call, if any
storedByEmail == findByEmail(users, last.arg.email)

\* C1: no record in the result of any service call (getAllUsers, getUserById,
\* register, login, createUserAdmin, updateUser) has a password field,
\* whatever `fields` names.
C1_NoPasswordInAnyResult ==
  hasResult =>
    \A i \in 1..Len(last.res[1].data) : "password" \notin DOMAIN last.res[1].data[i]

fieldsAreSelectable(fields) ==
  ~fieldSelections(fields).err /\ selectIsValid(fieldSelections(fields).sel)

presentedJwt ==
  IF /\ last.arg.authorization # Null
     /\ last.arg.authorization[1].prefix \in {"Bearer ", ""}
     /\ last.arg.authorization[1].credential # Null
  THEN last.arg.authorization[1].credential
  ELSE Null

\* the user a token names is, when the request is made, stored, not
\* soft-deleted and active
namesLiveActiveUser(jwt) ==
  /\ jwt.userId \in 1..Len(last.arg.before)
  /\ ~last.arg.before[jwt.userId].isDeleted
  /\ last.arg.before[jwt.userId].status = "active"

\* C3: authenticate calls next exactly when the request carries a bearer
\* token that this server signed, that has not expired, and whose user is at
\* that moment not soft-deleted and active; it then attaches that user without
\* the password.  In every other case the response is 401 and the handler does
\* not run.
C3_AuthenticateGate ==
  last.auth # Null =>
    LET a == last.auth[1]
        jwt == presentedJwt
        accepted == /\ jwt # Null
                    /\ jwt[1].sig = JWT_SECRET
                    /\ last.arg.at < jwt[1].exp
                    /\ namesLiveActiveUser(jwt[1])
    IN /\ a.next <=> accepted
       /\ a.next =>
            /\ a.user # Null
            /\ a.user[1].id = jwt[1].userId
            /\ "password" \notin DOMAIN a.user[1]
       /\ ~a.next =>
            /\ a.status = 401
            /\ last.http[1].status = 401
            /\ last.res = Null

\* a token of this server, not expired, whose user was soft-deleted or
\* deactivated after the token was issued, is turned away
C3_Witness ==
  /\ last.op = "GET /user/:id"
  /\ presentedJwt # Null
  /\ presentedJwt[1].sig = JWT_SECRET
  /\ last.arg.at < presentedJwt[1].exp
  /\ ~namesLiveActiveUser(presentedJwt[1])
  /\ last.arg.before[presentedJwt[1].userId].updatedAt > presentedJwt[1].iat
  /\ last.http[1].status = 401

\* C4: login succeeds only for a user that is active and not soft-deleted.
C4_LoginOnlyActiveLive ==
  (last.op = "login" /\ last.res[1].success) =>
    \E i \in 1..Len(users) :
      /\ users[i].email = last.arg.email
      /\ users[i].status = "active"
      /\ ~users[i].isDeleted

authenticatedAs(roles) ==
  /\ last.op \in Mutations
  /\ last.auth[1].next
  /\ last.auth[1].user[1].role \in roles

\* C5: a PATCH or PUT on a live user's id by an authenticated admin runs the
\* service and is answered 200.
C5_AdminMayMutate ==
  (authenticatedAs({"admin"}) /\ last.arg.target # Null) =>
    /\ last.http[1].status = 200
    /\ last.res # Null
    /\ last.res[1].success

C7_RegisteredEmailIsRefused ==
  (last.op \in Creators /\ last.arg.known) =>
    /\ last.res[1] = failure("User already exists")
    /\ Len(users) = last.arg.count

\* C7, amended: while a record still carries the email (soft-deleted or not),
\* a register or createUserAdmin call with an email that an earlier such call
\* succeeded for fails and creates no record; the failure is 'User already
\* exists' for register and for createUserAdmin called with the admin role.
C7_HeldEmailIsRefused ==
  (last.op \in Creators /\ last.arg.known /\ last.arg.held # Null) =>
    /\ ~last.res[1].success
    /\ Len(users) = last.arg.count
    /\ (last.op = "register" \/ last.arg.userRole = "admin") =>
         last.res[1] = failure("User already exists")

C7_Witness ==
  /\ last.op = "register"
  /\ last.arg.known
  /\ last.arg.held # Null
  /\ last.arg.held[1].isDeleted
  /\ last.res[1].message = "User already exists"

\* C8: no two records that are not soft-deleted carry the same email.
C8_LiveEmailsAreDistinct ==
  \A i, j \in 1..Len(users) :
    (i # j /\ ~users[i].isDeleted /\ ~users[j].isDeleted) => users[i].email # users[j].email

\* a creation that found the email free when it looked and was refused by the
\* store when it wrote: another creation with the same email came first
C8_Witness ==
  /\ last.op \in Creators
  /\ last.arg.held = Null
  /\ last.res[1].message = "Server error"
  /\ \E i \in 1..Len(users) : users[i].email = last.arg.email /\ ~users[i].isDeleted

\* C9: login with a stored email and a claimed role other than the stored one
\* fails with 'Access denied: Invalid role for this login' and gives no token,
\* also when the password is right; a wrong password with the stored role
\* fails with the different message 'Invalid credentials'.
C9_RoleMismatchIsDistinct ==
  (last.op = "login" /\ storedByEmail # <<>>) =>
    LET u == storedByEmail[1]
    IN /\ last.arg.role # u.role =>
            /\ last.res[1] = failure("Access denied: Invalid role for this login")
            /\ last.res[1].token = Null
       /\ (last.arg.role = u.role /\ ~bcryptCompare(last.arg.password, u.password)) =>
            /\ last.res[1].message = "Invalid credentials"
            /\ last.res[1].message # "Access denied: Invalid role for this login"

C9_Witness ==
  /\ last.op = "login"
  /\ storedByEmail # <<>>
  /\ last.arg.role # storedByEmail[1].role
  /\ bcryptCompare(last.arg.password, storedByEmail[1].password)
  /\ last.res[1].message = "Access denied: Invalid role for this login"

\* C10 as stated: every failed login gets the response a login with an email
\* no user has gets.
C10_FailedLoginIsUniform ==
  (last.op = "login" /\ ~last.res[1].success) =>
    last.res[1] = failure("Invalid credentials")

\* C10, amended: a failed login whose claimed role is the stored role of the
\* email's user gets the response a login with an email no user has gets
\* ('Invalid credentials'); a claimed role other than the stored one is
\* answered differently (C9).
C10_WrongPasswordIsUniform ==
  (/\ last.op = "login"
   /\ ~last.res[1].success
   /\ (storedByEmail = <<>> \/ storedByEmail[1].role = last.arg.role)) =>
    last.res[1] = failure("Invalid credentials")

C10_Witness ==
  /\ last.op = "login"
  /\ storedByEmail # <<>>
  /\ storedByEmail[1].role = last.arg.role
  /\ ~bcryptCompare(last.arg.password, storedByEmail[1].password)
  /\ last.res[1] = failure("Invalid credentials")

\* C11 as stated: of the three roles only admin passes a check for
\* 'admin:all', and admin passes hasPermission for every permission and
\* hasAnyPermission and hasAllPermissions for every list of permissions.
C11_AdminPassesEveryCheck ==
  (last.op = "rbac" /\ last.arg.userRole \in Roles) =>
    /\ last.res[1].adminAll => last.arg.userRole = "admin"
    /\ last.arg.userRole = "admin" =>
         last.res[1].has /\ last.res[1].any /\ last.res[1].all

\* C11, amended: of the three roles only admin passes a check for
\* 'admin:all'; admin passes hasPermission for every permission,
\* hasAllPermissions for every list, and hasAnyPermission for every list that
\* is not empty; for the empty list hasAnyPermission is false for every role.
C11_AdminPassesEveryNonEmptyCheck ==
  (last.op = "rbac" /\ last.arg.userRole \in Roles) =>
    /\ last.res[1].adminAll <=> last.arg.userRole = "admin"
    /\ last.arg.userRole = "admin" =>
         /\ last.res[1].has
         /\ last.res[1].all
         /\ last.arg.permissions # <<>> => last.res[1].any
    /\ last.arg.permissions = <<>> => ~last.res[1].any

C11_Witness ==
  /\ last.op = "rbac"
  /\ last.arg.userRole = "admin"
  /\ last.arg.permission = "delete:users"
  /\ last.arg.permissions = <<"write:users", "delete:users">>
  /\ last.res[1].has /\ last.res[1].any /\ last.res[1].all

\* whether the guard of the last call was a role guard passed by its user, or
\* a permission guard whose user holds one of the listed permissions
guardAdmits ==
  IF last.op = "requireRole"
  THEN \E i \in 1..Len(last.arg.listed) : last.arg.listed[i] = last.arg.reqUser[1].role
  ELSE \E i \in 1..Len(last.arg.listed) :
         LET held == ROLE_PERMISSIONS[last.arg.reqUser[1].role]
         IN \E j \in 1..Len(held) : held[j] \in {last.arg.listed[i], "admin:all"}

\* C12: a role guard and a permission guard respond 401 when the request has
\* no authenticated user, 403 when the user's role is not listed (role guard)
\* or holds none of the listed permissions (permission guard), and otherwise
\* call next, once, with no response sent.
C12_GuardsAnswer ==
  last.op \in {"requireRole", "requirePermission"} =>
    LET g == last.http[1]
    IN IF last.arg.reqUser = Null
       THEN ~g.next /\ g.status = 401 /\ g.message = "Authentication required"
       ELSE IF ~guardAdmits
       THEN ~g.next /\ g.status = 403 /\ g.message = "Insufficient permissions"
       ELSE g.next /\ g.status = 0 /\ g.thrown = Null /\ g.user = last.arg.reqUser

\* a driver before a guard that lists read:users and write:users goes on
C12_Witness ==
  /\ last.op = "requirePermission"
  /\ last.arg.reqUser # Null
  /\ last.arg.reqUser[1].role = "driver"
  /\ last.arg.listed = <<"read:users", "write:users">>
  /\ last.http[1].next

\* C13: a token that register, createUserAdmin or login issued at time t,
\* presented while its user is live and active, is accepted by authenticate
\* on every request made before t + 7 days, the moment of issuance included,
\* and answered 401 on every request made at or after t + 7 days.
C13_TokenLivesSevenDays ==
  (/\ last.op = "GET /user/:id"
   /\ presentedJwt # Null
   /\ presentedJwt[1].sig = JWT_SECRET
   /\ namesLiveActiveUser(presentedJwt[1])) =>
    LET issued == presentedJwt[1].iat
    IN /\ issued <= last.arg.at
       /\ last.arg.at < issued + 7 =>
            /\ last.auth[1].next
            /\ last.auth[1].user[1].id = presentedJwt[1].userId
            /\ last.res # Null
       /\ last.arg.at >= issued + 7 =>
            /\ ~last.auth[1].next
            /\ last.http[1].status = 401
            /\ last.res = Null

\* the token of a live, active user, presented after its seven days
C13_Witness ==
  /\ last.op = "GET /user/:id"
  /\ presentedJwt # Null
  /\ presentedJwt[1].sig = JWT_SECRET
  /\ namesLiveActiveUser(presentedJwt[1])
  /\ last.arg.at > presentedJwt[1].iat + 7
  /\ last.http[1].status = 401

\* the stored users that are not soft-deleted
liveIds == {i \in 1..Len(users) : ~users[i].isDeleted}

\* C14: for total matching live users, limit >= 1 and page >= 1, getAllUsers
\* returns min(limit, max(0, total - (page - 1) * limit)) records, and its
\* pagination gives total, totalPages = ceil(total / limit) and hasMore
\* exactly when skip + limit < total; with no search and no filter, total is
\* the number of live users.
C14_PageArithmetic ==
  (last.op = "getAllUsers" /\ last.res[1].success) =>
    LET page == IF last.arg.page = Null THEN 1 ELSE last.arg.page[1]
        limit == IF last.arg.limit = Null THEN 10 ELSE last.arg.limit[1]
        skip == (page - 1) * limit
        p == last.res[1].pagination[1]
        rest == IF p.total - skip > 0 THEN p.total - skip ELSE 0
    IN /\ (last.arg.query = <<>> /\ last.arg.filters = NoKeys) =>
            p.total = Cardinality(liveIds)
       /\ Len(last.res[1].data) = IF limit < rest THEN limit ELSE rest
       /\ p.page = page /\ p.limit = limit
       /\ p.totalPages * limit >= p.total
       /\ (p.totalPages - 1) * limit < p.total
       /\ p.hasMore <=> skip + limit < p.total

\* four live users listed three to a page: the second page has one record
\* and is the last
C14_Witness ==
  /\ last.op = "getAllUsers"
  /\ last.arg.page = <<2>> /\ last.arg.limit = <<3>>
  /\ Cardinality(liveIds) = 4
  /\ last.res[1].success
  /\ Len(last.res[1].data) = 1
  /\ last.res[1].pagination[1].totalPages = 2
  /\ ~last.res[1].pagination[1].hasMore

\* a requested path as a key path of the selection
keyPath(path) == [j \in 1..Len(path) |-> <<path[j]>>]

\* {id} plus a leaf per requested path and a node per proper prefix of one
selectionAsked(paths) ==
  {[path |-> <<<<"id">>>>, leaf |-> TRUE]}
    \cup {[path |-> keyPath(paths[i]), leaf |-> TRUE] : i \in 1..Len(paths)}
    \cup UNION {{[path |-> keyPath(SubSeq(paths[i], 1, k)), leaf |-> FALSE] :
                   k \in 1..(Len(paths[i]) - 1)} : i \in 1..Len(paths)}

\* no requested path, nor id, is the beginning of a longer requested path
pathsAreApart(paths) ==
  \A i \in 1..Len(paths) :
    /\ Len(paths[i]) > 1 => paths[i][1] # "id"
    /\ \A j \in 1..Len(paths) :
         Len(paths[j]) < Len(paths[i]) => SubSeq(paths[i], 1, Len(paths[j])) # paths[j]

holds(text, needle) ==
  \E i \in 0..(Len(text) - Len(needle)) :
    toLower(SubSeq(text, i + 1, i + Len(needle))) = toLower(needle)

\* the live users that equal every filter and, under a search string, hold
\* it in one of firstName, lastName, middleName, email; a filter on a field
\* that no record has, or with a value no record can have, is met by none
idsAsked(query, filters) ==
  {i \in liveIds :
     /\ \A k \in DOMAIN filters :
          /\ k \in {"role", "status"}
          /\ users[i][k] = filters[k]
     /\ query # <<>> =>
          \/ holds(users[i].firstName, query)
          \/ holds(users[i].lastName, query)
          \/ users[i].middleName # Null /\ holds(users[i].middleName[1], query)
          \/ holds(users[i].email, query)}

\* C16: getAllUsers succeeds and returns the live users that meet every
\* filter_<field>=<value> equality and, when `query` is present, hold it in
\* one of firstName, lastName, middleName, email, letter case aside; a filter
\* on a field no user record has gives zero records and no error.
C16_ListIsWhatWasAsked ==
  last.op = "getAllUsers" =>
    LET asked == idsAsked(last.arg.query, last.arg.filters)
    IN /\ last.res[1].success
       /\ last.res[1].pagination[1].total = Cardinality(asked)
       /\ \A i \in 1..Len(last.res[1].data) : last.res[1].data[i].id \in asked
       /\ Len(last.res[1].data) =
            IF last.arg.limit # Null \/ last.arg.page # Null
            THEN Len(last.res[1].data) ELSE Cardinality(asked)

\* C17: the predicate getAllUsers hands to the store requires isDeleted =
\* false, and holds the search clause when `query` is given, whatever the
\* filter_* parameters are.
C17_FixedClausesStay ==
  last.op = "getAllUsers" =>
    LET where == whereClause(last.arg.query, last.arg.filters)
    IN /\ "isDeleted" \in DOMAIN where
       /\ where.isDeleted = [t |-> "boolean", v |-> FALSE]
       /\ last.arg.query # <<>> =>
            /\ "OR" \in DOMAIN where
            /\ where.OR = [t |-> "search", v |-> last.arg.query]

\* C18: when a persistence call fails during a handler (register, login,
\* list, get-by-id, admin create, update, delete) the response is 500 with
\* the message 'Server error', never 400 or 404, and nothing is written.
C18_StoreFailureIs500 ==
  (last.op \in DOMAIN FailureStatus /\ ~last.arg.up) =>
    /\ last.http[1].status = 500
    /\ last.http[1].message = "Server error"
    /\ users = last.arg.before

\* whether a login of the user with the password succeeds on the collection
logsIn(us, id, password) ==
  login(us, us[id].email, password, us[id].role, now).success

\* C19: after updateUser has succeeded with a password in the payload, login
\* succeeds with that password and with no other; after updateUser has
\* succeeded without a password in the payload, the stored hash is the one
\* before, and login succeeds with the same passwords as before.
C19_UpdateSetsThePassword ==
  [][(last'.op = "updateUser" /\ last'.res[1].success) =>
       LET id == last'.arg.id
           given == last'.arg.data.password
       IN IF given # Null
          THEN \A pw \in PasswordInputs : logsIn(users', id, pw) <=> pw = given[1]
          ELSE /\ users'[id].password = users[id].password
               /\ \A pw \in PasswordInputs : logsIn(users', id, pw) <=> logsIn(users, id, pw)
    ]_vars

\* C20: the password of every stored user is a bcrypt hash, never the
\* string the caller supplied, whatever that string was.
C20_StoredPasswordIsAHash ==
  \A i \in 1..Len(users) :
    /\ users[i].password.alg = "bcrypt"
    /\ users[i].password.salt \in Salts

(***************************************************************************)
(* C21: a successful updateUser changes, in the record it names, only the  *)
(* fields its payload gives and updatedAt, and leaves every other record   *)
(* as it was.                                                              *)
(***************************************************************************)
C21_UpdateFrame ==
  [][(last'.op = "updateUser" /\ last'.arg.data \in BodyInputs /\ last'.res[1].success) =>
       /\ Len(users') = Len(users)
       /\ \A i \in 1..Len(users) :
            i # last'.arg.id => users'[i] = users[i]
       /\ \A f \in DOMAIN users[last'.arg.id] :
            (f \notin givenKeys(last'.arg.data) /\ f # "updatedAt")
              => users'[last'.arg.id][f] = users[last'.arg.id][f]]_vars

\* an update of the first name alone has succeeded on a record that is not
\* as the defaults make it, at a later time, with another record there
C21_Witness ==
  /\ last.op = "updateUser"
  /\ hasResult
  /\ last.res[1].success
  /\ givenKeys(last.arg.data) = {"firstName"}
  /\ Len(users) = 2
  /\ users[last.arg.id].status = "inactive"
  /\ users[last.arg.id].firstName = <<"Z", "e">>
  /\ users[last.arg.id].updatedAt > users[last.arg.id].createdAt

(***************************************************************************)
(* C22: no operation changes the id or the createdAt of a record once it   *)
(* is created, whatever the payload of updateUser.                         *)
(***************************************************************************)
C22_IdAndCreatedAtAreFixed ==
  [][\A i \in 1..Len(users) :
       /\ Len(users') >= i
       /\ users'[i].id = users[i].id
       /\ users'[i].createdAt = users[i].createdAt]_vars

(***************************************************************************)
(* C23: once a deleteUser call on an id has returned success, every later  *)
(* deleteUser call on that id by a permitted role returns 'User not found' *)
(* and leaves the collection, updatedAt included, as it was.               *)
(***************************************************************************)
C23_DeleteIsIdempotent ==
  [][(last'.op = "deleteUser" /\ last' # last /\ last'.arg.later) =>
       /\ last'.res[1] = failure("User not found")
       /\ users' = users]_vars

(***************************************************************************)
(* C24: once isDeleted is true no operation changes a field of the record, *)
(* under any interleaving of updateUser and deleteUser calls on its id;    *)
(* isDeleted does not return to false, and of several concurrent           *)
(* deleteUser calls on one id at most one reports success.                 *)
(***************************************************************************)
C24_DeletedIsFrozen ==
  [][/\ \A i \in 1..Len(users) : users[i].isDeleted => users'[i] = users[i]
     /\ (last'.op = "deleteUser" /\ inflight' # inflight /\ last'.res[1].success)
          => ~users[last'.arg.id].isDeleted]_vars

(***************************************************************************)
(* C25: when createUserAdmin, updateUser or deleteUser is called for a     *)
(* role without the permission it requires, the handler answers 403        *)
(* 'Insufficient permissions', never 400, 404 or a 'Server error' result.  *)
(***************************************************************************)
C25_DeniedIs403 ==
  (/\ last.op \in DOMAIN RequiredPermission
   /\ last.http # Null
   /\ ~includes(permissionsOf(last.arg.userRole), RequiredPermission[last.op])
   /\ ~includes(permissionsOf(last.arg.userRole), "admin:all"))
  => /\ last.http[1].status = 403
     /\ last.http[1].message = "Insufficient permissions"
     /\ last.res[1].message # "Server error"

(***************************************************************************)
(* C26: for a role that is not a key of the permission table,              *)
(* hasPermission, hasAnyPermission and hasAllPermissions return false for  *)
(* every permission and every list of permissions, the empty list          *)
(* included, and none of them throws.                                      *)
(***************************************************************************)
C26_ForeignRoleHasNothing ==
  last.op = "rbacForeign" =>
    /\ ~last.res[1].hasThrew
    /\ ~last.res[1].listThrew
    /\ ~last.res[1].has
    /\ ~last.res[1].any
    /\ ~last.res[1].all

(***************************************************************************)
(* C27: every user created through POST /auth/register is stored with role *)
(* passenger and status active, whatever role and status the body carries; *)
(* no sequence of register requests creates an admin or a driver.          *)
(***************************************************************************)
C27_RegisteredIsActivePassenger ==
  \A i \in 1..Len(users) :
    /\ users[i].role = "passenger"
    /\ users[i].status = "active"

\* a register request with role admin and status inactive in its body has
\* created a record
C27_Witness ==
  /\ last.op = "register"
  /\ last.arg.role = <<"admin">>
  /\ last.arg.status = <<"inactive">>
  /\ last.http[1].status = 201
  /\ Len(users) = last.arg.count + 1
  /\ users[Len(users)].email = last.arg.email

(***************************************************************************)
(* C28: whenever register or createUserAdmin returns success = false, the  *)
(* call has left the collection as it was: no record is created when a     *)
(* later step of the call, such as the signing of the token, fails.        *)
(***************************************************************************)
C28_FailedCreateWritesNothing ==
  (last.op \in Creators /\ hasResult /\ ~last.res[1].success) => users = last.arg.before

(***************************************************************************)
(* C29: in every getAllUsers response data and pagination describe one     *)
(* state of the store, also when register, createUserAdmin or deleteUser   *)
(* run during the call: data is no longer than max(0, total - skip), and   *)
(* when hasMore is false the page is all of the matching records from      *)
(* offset skip on.                                                         *)
(***************************************************************************)
C29_PageAndCountAgree ==
  (last.op = "getAllUsers" /\ hasResult /\ last.res[1].success) =>
    LET pagination == last.res[1].pagination[1]
        skip == (pagination.page - 1) * pagination.limit
        rest == IF pagination.total > skip THEN pagination.total - skip ELSE 0
    IN /\ Len(last.res[1].data) <= rest
       /\ ~pagination.hasMore => Len(last.res[1].data) = rest

(***************************************************************************)
(* C30: for every list of field paths, every order of the paths builds the *)
(* same selection tree, and none makes the builder fail, also when a path  *)
(* and one of its own sub-paths are both asked for.                        *)
(***************************************************************************)
reordered(paths) ==
  {[i \in 1..Len(paths) |-> paths[f[i]]] : f \in Permutations(1..Len(paths))}

C30_OrderOfPathsIsIrrelevant ==
  last.op = "fieldSelections" =>
    \A paths \in reordered(last.arg.paths) :
      LET built == fieldSelections(fieldsOf(paths, FALSE))
      IN /\ ~built.err
         /\ ~last.res[1].err
         /\ built.sel = last.res[1].sel

====
